---- MODULE Spec2Model ----
(***************************************************************************)
(* The shallow-shelf solver of icepack (src/src/shallow_shelf.cpp) as a    *)
(* state machine: the cycle driver ShallowShelf::run, setup_system,        *)
(* refine_grid, assemble_system, the Picard loop of solve and              *)
(* output_results, one action per statement group, in program order.       *)
(* The finite-element library is the environment: a mesh is a record of    *)
(* counts, and every vector and matrix carries the mesh it was sized for.  *)
(* A second specification, SpecElem, runs the element assemblers and the   *)
(* load-vector loops of one cell on abstract floating-point values.        *)
(***************************************************************************)
EXTENDS Integers, Sequences, FiniteSets, TLC

\* ------------------------------------------------------------------ bounds
\* Largest number of active cells of a mesh.
MaxCells == 2
\* Largest number of degrees of freedom of a mesh.
MaxDofs == 3

\* ------------------------------------------------------- program constants
\* for (cycle = 0; cycle < 3; ++cycle)
Cycles == 3
\* A loop that stops one iteration early.
PicardIterationsShort == 5 - 1
\* for (iteration = 0; iteration < 5; ++iteration)
PicardIterations == 5
\* Assert (cycle < 10, ...) in output_results
MaxCycleDigit == 10
\* the boundary indicator of the calving front
CalvingId == 1

VARIABLES
  pc,                         \* the statement the program is at
  ret,                        \* who called setup_system: "run" or "refine_grid"
  initial_step,               \* the argument of setup_system
  cycle,                      \* the loop variable of run
  iteration,                  \* the loop variable of solve
  cell,                       \* the cell iterator of assemble_system
  triangulation,              \* the mesh
  dof_handler,
  hanging_node_constraints,
  sparsity_pattern,
  system_matrix,
  system_rhs,
  solution,                   \* the velocity field
  preconditioner,             \* the SparseILU of solve
  cell_matrix,                \* the local buffers of assemble_system
  cell_rhs,
  assemble_matrix,            \* the assembler object solve hands to assemble_system
  estimated_error_per_cell,
  solution_transfer,
  asm,                        \* how many times assemble_system was entered
  picard,                     \* the steps solve has done in this cycle
  steps,                      \* the steps run, refine_grid, setup_system have done in this cycle
  outputs,                    \* the files output_results has written
  solAtIterEnd,               \* the velocity field as the last Picard iteration left it
  elemReads,                  \* the velocity fields the element assembler read in this assembly
  ecell                       \* the cell of SpecElem

vars == << pc, ret, initial_step, cycle, iteration, cell, triangulation,
           dof_handler, hanging_node_constraints, sparsity_pattern,
           system_matrix, system_rhs, solution, preconditioner, cell_matrix,
           cell_rhs, assemble_matrix, estimated_error_per_cell,
           solution_transfer, asm, picard, steps, outputs, solAtIterEnd,
           elemReads, ecell >>

runvars == << pc, ret, initial_step, cycle, iteration, cell, triangulation,
              dof_handler, hanging_node_constraints, sparsity_pattern,
              system_matrix, system_rhs, solution, preconditioner,
              cell_matrix, cell_rhs, assemble_matrix,
              estimated_error_per_cell, solution_transfer, asm, picard,
              steps, outputs, solAtIterEnd, elemReads >>

\* --------------------------------------------------------------- the mesh
\* A mesh: its version (every change of the triangulation makes a new one),
\* its active cells 1..n_cells, the degrees of freedom 1..n_dofs a
\* distribute_dofs gives it, of which the first nb lie on the boundary with
\* indicator 0 and the last nh are hanging nodes. A hanging node sits on a
\* face between a refined and an unrefined cell, which is an interior face,
\* so no degree of freedom is both.
Meshes(ver, minCells, maxHanging) ==
  { m \in [ver : {ver}, n_cells : minCells..MaxCells, n_dofs : 1..MaxDofs,
           nb : 0..MaxDofs, nh : 0..maxHanging, flagged : {FALSE}] :
      m.nb + m.nh <= m.n_dofs }

\* The triangulation the caller hands to the constructor: no degrees of
\* freedom are distributed on it before the global refinement of cycle 0.
CoarseMeshes == { m \in Meshes(1, 1, 0) : m.n_dofs = 1 /\ m.nb = 0 }

ActiveCells(tria) == 1..tria.n_cells

\* VectorTools::interpolate_boundary_values (dof_handler, 0, ...): the
\* degrees of freedom on the faces with boundary indicator 0.
BoundaryDofs(tria) == 1..tria.nb

\* DoFTools::make_hanging_node_constraints: the constrained degrees of freedom.
HangingDofs(tria) == (tria.n_dofs - tria.nh + 1)..tria.n_dofs

\* A vector of the given size whose entries all come from one writer.
Filled(n, tag) == [d \in 1..n |-> tag]

\* The velocity field after a write: the writer's values, one write more.
\* The stamp counts the writes, so that two fields are the same field only
\* when no write lies between them.
Written(sol, mesh, val) ==
  [mesh |-> mesh, size |-> Len(val), val |-> val, stamp |-> sol.stamp + 1]

\* The entries ds of the velocity field overwritten by one writer; a write
\* only when there is an entry to overwrite.
Overwritten(sol, ds, tag) ==
  IF ds \cap (1..sol.size) = {}
    THEN sol
    ELSE Written(sol, sol.mesh,
                 [d \in 1..sol.size |-> IF d \in ds THEN tag ELSE sol.val[d]])

Log(l, ev) == Append(l, ev)

\* ------------------------------------------------------------------- Init
EmptyMatrix == [mesh |-> 0, m |-> 0, n |-> 0, entries |-> << >>, post |-> << >>]
EmptyVector == [mesh |-> 0, size |-> 0, entries |-> << >>, post |-> << >>]
NoEstimate == [mesh |-> 0, size |-> 0, stamp |-> 0]
NoTransfer == [mesh |-> 0, stored |-> 0]
NoCell == [phase |-> "none"]

InitRun ==
  /\ pc = "run"
  /\ ret = "run"
  /\ initial_step = TRUE
  /\ cycle = 0
  /\ iteration = 0
  /\ cell = 0
  /\ triangulation \in CoarseMeshes
  /\ dof_handler = [mesh |-> 0, n_dofs |-> 0]
  /\ hanging_node_constraints = [mesh |-> 0, closed |-> FALSE, lines |-> {}]
  /\ sparsity_pattern = [mesh |-> 0, rows |-> 0, cols |-> 0, condensed |-> FALSE, compressed |-> FALSE]
  /\ system_matrix = EmptyMatrix
  /\ system_rhs = EmptyVector
  /\ solution = [mesh |-> 0, size |-> 0, val |-> << >>, stamp |-> 0]
  /\ preconditioner = EmptyMatrix
  /\ cell_matrix = << >>
  /\ cell_rhs = << >>
  /\ assemble_matrix = "none"
  /\ estimated_error_per_cell = NoEstimate
  /\ solution_transfer = NoTransfer
  /\ asm = 0
  /\ picard = << >>
  /\ steps = << >>
  /\ outputs = << >>
  /\ solAtIterEnd = solution
  /\ elemReads = << >>

Init == InitRun /\ ecell = NoCell

\* -------------------------------------------------------------------- run
\* run, cycle 0: triangulation.refine_global (2), then setup_system (true).
\* A global refinement leaves no hanging node and never removes a cell.
RefineGlobal ==
  /\ pc = "run" /\ cycle < Cycles /\ cycle = 0
  /\ \E m \in Meshes(triangulation.ver + 1, triangulation.n_cells, 0) :
        triangulation' = m
  /\ steps' = Log(<< >>, "refine_global")
  /\ picard' = << >>
  /\ pc' = "setup_system" /\ ret' = "run"
  /\ UNCHANGED << initial_step, cycle, iteration, cell, dof_handler,
                  hanging_node_constraints, sparsity_pattern, system_matrix,
                  system_rhs, solution, preconditioner, cell_matrix, cell_rhs,
                  assemble_matrix, estimated_error_per_cell, solution_transfer,
                  asm, outputs, solAtIterEnd, elemReads, ecell >>

\* run: the loop ends after the last cycle.
RunReturn ==
  /\ pc = "run" /\ ~(cycle < Cycles)
  /\ pc' = "done"
  /\ UNCHANGED << ret, initial_step, cycle, iteration, cell, triangulation,
                  dof_handler, hanging_node_constraints, sparsity_pattern,
                  system_matrix, system_rhs, solution, preconditioner,
                  cell_matrix, cell_rhs, assemble_matrix,
                  estimated_error_per_cell, solution_transfer, asm, picard,
                  steps, outputs, solAtIterEnd, elemReads, ecell >>

\* ----------------------------------------------------------- setup_system
\* The call: run passes cycle == 0, refine_grid passes false.
SetupSystemCall ==
  /\ pc = "setup_system"
  /\ initial_step' = IF ret = "run" THEN (cycle = 0) ELSE FALSE
  /\ pc' = IF initial_step' THEN "ss_distribute_dofs" ELSE "ss_sparsity"
  /\ UNCHANGED << ret, cycle, iteration, cell, triangulation, dof_handler,
                  hanging_node_constraints, sparsity_pattern, system_matrix,
                  system_rhs, solution, preconditioner, cell_matrix, cell_rhs,
                  assemble_matrix, estimated_error_per_cell, solution_transfer,
                  asm, picard, steps, outputs, solAtIterEnd, elemReads, ecell >>

\* dof_handler.distribute_dofs (fe): number the current mesh.
DistributeDofs(tria) == [mesh |-> tria.ver, n_dofs |-> tria.n_dofs]

\* clear, make_hanging_node_constraints, close.
MakeConstraints(tria, dh) ==
  [mesh |-> dh.mesh, closed |-> TRUE, lines |-> HangingDofs(tria)]

SetupDistributeDofs ==
  /\ pc = "ss_distribute_dofs"
  /\ dof_handler' = DistributeDofs(triangulation)
  /\ steps' = Log(steps, "distribute_dofs")
  /\ pc' = "ss_constraints"
  /\ UNCHANGED << ret, initial_step, cycle, iteration, cell, triangulation,
                  hanging_node_constraints, sparsity_pattern, system_matrix,
                  system_rhs, solution, preconditioner, cell_matrix, cell_rhs,
                  assemble_matrix, estimated_error_per_cell, solution_transfer,
                  asm, picard, outputs, solAtIterEnd, elemReads, ecell >>

SetupConstraints ==
  /\ pc = "ss_constraints"
  /\ hanging_node_constraints' = MakeConstraints(triangulation, dof_handler)
  /\ steps' = Log(steps, "make_constraints")
  /\ pc' = "ss_solution"
  /\ UNCHANGED << ret, initial_step, cycle, iteration, cell, triangulation,
                  dof_handler, sparsity_pattern, system_matrix, system_rhs,
                  solution, preconditioner, cell_matrix, cell_rhs,
                  assemble_matrix, estimated_error_per_cell, solution_transfer,
                  asm, picard, outputs, solAtIterEnd, elemReads, ecell >>

\* solution.reinit (dof_handler.n_dofs()), then VectorTools::interpolate of
\* the boundary velocity: every entry is the boundary velocity at its node.
InterpolateBoundaryVelocity(sol, dh) ==
  Written(Written(sol, dh.mesh, Filled(dh.n_dofs, "zero")),
          dh.mesh, Filled(dh.n_dofs, "bvel"))

SetupSolution ==
  /\ pc = "ss_solution"
  /\ solution' = InterpolateBoundaryVelocity(solution, dof_handler)
  /\ steps' = Log(steps, "interpolate_boundary_velocity")
  /\ pc' = "ss_sparsity"
  /\ UNCHANGED << ret, initial_step, cycle, iteration, cell, triangulation,
                  dof_handler, hanging_node_constraints, sparsity_pattern,
                  system_matrix, system_rhs, preconditioner, cell_matrix,
                  cell_rhs, assemble_matrix, estimated_error_per_cell,
                  solution_transfer, asm, picard, outputs, solAtIterEnd,
                  elemReads, ecell >>

\* A pattern that is built once and reused after the mesh has changed.
MakeSparsityPatternOnce(dh) ==
  IF sparsity_pattern.mesh = 0
    THEN [mesh |-> dh.mesh, rows |-> dh.n_dofs, cols |-> dh.n_dofs,
          condensed |-> TRUE, compressed |-> TRUE]
    ELSE sparsity_pattern

\* sparsity_pattern.reinit (n_dofs, n_dofs, ...), make_sparsity_pattern,
\* hanging_node_constraints.condense, compress.
MakeSparsityPattern(dh) ==
  [mesh |-> dh.mesh, rows |-> dh.n_dofs, cols |-> dh.n_dofs,
   condensed |-> TRUE, compressed |-> TRUE]

\* system_matrix.reinit (sparsity_pattern): the pattern's size, all zero.
ReinitMatrix(sp) ==
  [mesh |-> sp.mesh, m |-> sp.rows, n |-> sp.cols, entries |-> << >>,
   post |-> << >>]

\* system_rhs.reinit (dof_handler.n_dofs()).
ReinitRhs(dh) ==
  [mesh |-> dh.mesh, size |-> dh.n_dofs, entries |-> << >>, post |-> << >>]

SetupSparsity ==
  /\ pc = "ss_sparsity"
  /\ sparsity_pattern' = MakeSparsityPattern(dof_handler)
  /\ steps' = Log(steps, "sparsity_pattern")
  /\ pc' = "ss_matrix"
  /\ UNCHANGED << ret, initial_step, cycle, iteration, cell, triangulation,
                  dof_handler, hanging_node_constraints, system_matrix,
                  system_rhs, solution, preconditioner, cell_matrix, cell_rhs,
                  assemble_matrix, estimated_error_per_cell, solution_transfer,
                  asm, picard, outputs, solAtIterEnd, elemReads, ecell >>

SetupMatrix ==
  /\ pc = "ss_matrix"
  /\ system_matrix' = ReinitMatrix(sparsity_pattern)
  /\ steps' = Log(steps, "reinit_matrix")
  /\ pc' = "ss_rhs"
  /\ UNCHANGED << ret, initial_step, cycle, iteration, cell, triangulation,
                  dof_handler, hanging_node_constraints, sparsity_pattern,
                  system_rhs, solution, preconditioner, cell_matrix, cell_rhs,
                  assemble_matrix, estimated_error_per_cell, solution_transfer,
                  asm, picard, outputs, solAtIterEnd, elemReads, ecell >>

\* system_rhs.reinit, and the return: to the end of refine_grid, whose
\* locals go and which returns to run's own call of setup_system, or to
\* run's call of solve.
SetupRhs ==
  /\ pc = "ss_rhs"
  /\ system_rhs' = ReinitRhs(dof_handler)
  /\ steps' = Log(steps, "reinit_rhs")
  /\ IF ret = "refine_grid"
       THEN /\ pc' = "setup_system" /\ ret' = "run"
            /\ estimated_error_per_cell' = NoEstimate
            /\ solution_transfer' = NoTransfer
       ELSE /\ pc' = "solve" /\ ret' = ret
            /\ UNCHANGED << estimated_error_per_cell, solution_transfer >>
  /\ UNCHANGED << initial_step, cycle, iteration, cell, triangulation,
                  dof_handler, hanging_node_constraints, sparsity_pattern,
                  system_matrix, solution, preconditioner, cell_matrix,
                  cell_rhs, assemble_matrix, asm, picard, outputs,
                  solAtIterEnd, elemReads, ecell >>

\* ------------------------------------------------------------ refine_grid
\* KellyErrorEstimator<2>::estimate (dof_handler, ..., solution,
\* estimated_error_per_cell): one indicator per active cell, from the mesh
\* and the velocity field as they are now.
EstimateError(tria, dh, sol) ==
  [mesh |-> dh.mesh, size |-> tria.n_cells, stamp |-> sol.stamp]

Estimate ==
  /\ pc = "run" /\ cycle < Cycles /\ cycle # 0
  /\ estimated_error_per_cell' = EstimateError(triangulation, dof_handler, solution)
  /\ steps' = Log(<< >>, "estimate_error")
  /\ picard' = << >>
  /\ pc' = "rg_mark"
  /\ UNCHANGED << ret, initial_step, cycle, iteration, cell, triangulation,
                  dof_handler, hanging_node_constraints, sparsity_pattern,
                  system_matrix, system_rhs, solution, preconditioner,
                  cell_matrix, cell_rhs, assemble_matrix, solution_transfer,
                  asm, outputs, solAtIterEnd, elemReads, ecell >>

\* GridRefinement::refine_and_coarsen_fixed_number (triangulation,
\* estimated_error_per_cell, 0.3, 0.03) and
\* triangulation.prepare_coarsening_and_refinement (): flags on the cells of
\* the mesh, which stays the same mesh.
Mark ==
  /\ pc = "rg_mark"
  /\ triangulation' = [triangulation EXCEPT !.flagged = TRUE]
  /\ steps' = Log(steps, "mark_cells")
  /\ pc' = "rg_prepare"
  /\ UNCHANGED << ret, initial_step, cycle, iteration, cell, dof_handler,
                  hanging_node_constraints, sparsity_pattern, system_matrix,
                  system_rhs, solution, preconditioner, cell_matrix, cell_rhs,
                  assemble_matrix, estimated_error_per_cell, solution_transfer,
                  asm, picard, outputs, solAtIterEnd, elemReads, ecell >>

\* SolutionTransfer<2> solution_transfer (dof_handler);
\* solution_transfer.prepare_for_coarsening_and_refinement (solution).
PrepareTransfer ==
  /\ pc = "rg_prepare"
  /\ solution_transfer' = [mesh |-> dof_handler.mesh, stored |-> solution.stamp]
  /\ steps' = Log(steps, "prepare_transfer")
  /\ pc' = "rg_execute"
  /\ UNCHANGED << ret, initial_step, cycle, iteration, cell, triangulation,
                  dof_handler, hanging_node_constraints, sparsity_pattern,
                  system_matrix, system_rhs, solution, preconditioner,
                  cell_matrix, cell_rhs, assemble_matrix,
                  estimated_error_per_cell, asm, picard, outputs,
                  solAtIterEnd, elemReads, ecell >>

\* triangulation.execute_coarsening_and_refinement (): a new mesh, which
\* may have hanging nodes.
ExecuteCoarseningAndRefinement ==
  /\ pc = "rg_execute"
  /\ \E m \in Meshes(triangulation.ver + 1, 1, MaxDofs) : triangulation' = m
  /\ steps' = Log(steps, "execute_refinement")
  /\ pc' = "rg_distribute_dofs"
  /\ UNCHANGED << ret, initial_step, cycle, iteration, cell, dof_handler,
                  hanging_node_constraints, sparsity_pattern, system_matrix,
                  system_rhs, solution, preconditioner, cell_matrix, cell_rhs,
                  assemble_matrix, estimated_error_per_cell, solution_transfer,
                  asm, picard, outputs, solAtIterEnd, elemReads, ecell >>

RefineDistributeDofs ==
  /\ pc = "rg_distribute_dofs"
  /\ dof_handler' = DistributeDofs(triangulation)
  /\ steps' = Log(steps, "distribute_dofs")
  /\ pc' = "rg_interpolate"
  /\ UNCHANGED << ret, initial_step, cycle, iteration, cell, triangulation,
                  hanging_node_constraints, sparsity_pattern, system_matrix,
                  system_rhs, solution, preconditioner, cell_matrix, cell_rhs,
                  assemble_matrix, estimated_error_per_cell, solution_transfer,
                  asm, picard, outputs, solAtIterEnd, elemReads, ecell >>

\* An interpolation into the old vector, which keeps the old size.
TransferInterpolateInPlace(sol, dh) ==
  Written(sol, sol.mesh, Filled(sol.size, "transferred"))

\* Vector<double> tmp (dof_handler.n_dofs());
\* solution_transfer.interpolate (solution, tmp); solution = tmp.
TransferInterpolate(sol, dh) ==
  Written(sol, dh.mesh, Filled(dh.n_dofs, "transferred"))

Interpolate ==
  /\ pc = "rg_interpolate"
  /\ solution' = TransferInterpolate(solution, dof_handler)
  /\ steps' = Log(steps, "interpolate_solution")
  /\ pc' = "rg_boundary"
  /\ UNCHANGED << ret, initial_step, cycle, iteration, cell, triangulation,
                  dof_handler, hanging_node_constraints, sparsity_pattern,
                  system_matrix, system_rhs, preconditioner, cell_matrix,
                  cell_rhs, assemble_matrix, estimated_error_per_cell,
                  solution_transfer, asm, picard, outputs, solAtIterEnd,
                  elemReads, ecell >>

\* A refinement that leaves the boundary entries as interpolated.
ImposeBoundaryValuesSkipped(sol, tria) == sol

\* interpolate_boundary_values (dof_handler, 0, boundary_velocity,
\* boundary_values); for (dof_val: boundary_values)
\* solution(dof_val.first) = dof_val.second.
ImposeBoundaryValues(sol, tria) ==
  Overwritten(sol, BoundaryDofs(tria), "bvel")

BoundaryOverwrite ==
  /\ pc = "rg_boundary"
  /\ solution' = ImposeBoundaryValues(solution, triangulation)
  /\ steps' = Log(steps, "impose_boundary_values")
  /\ pc' = "rg_constraints"
  /\ UNCHANGED << ret, initial_step, cycle, iteration, cell, triangulation,
                  dof_handler, hanging_node_constraints, sparsity_pattern,
                  system_matrix, system_rhs, preconditioner, cell_matrix,
                  cell_rhs, assemble_matrix, estimated_error_per_cell,
                  solution_transfer, asm, picard, outputs, solAtIterEnd,
                  elemReads, ecell >>

RefineConstraints ==
  /\ pc = "rg_constraints"
  /\ hanging_node_constraints' = MakeConstraints(triangulation, dof_handler)
  /\ steps' = Log(steps, "make_constraints")
  /\ pc' = "rg_distribute"
  /\ UNCHANGED << ret, initial_step, cycle, iteration, cell, triangulation,
                  dof_handler, sparsity_pattern, system_matrix, system_rhs,
                  solution, preconditioner, cell_matrix, cell_rhs,
                  assemble_matrix, estimated_error_per_cell, solution_transfer,
                  asm, picard, outputs, solAtIterEnd, elemReads, ecell >>

\* hanging_node_constraints.distribute (solution): every constrained entry
\* is overwritten by the combination of the entries it depends on.
Distribute(sol, hnc) == Overwritten(sol, hnc.lines, "constrained")

\* hanging_node_constraints.distribute (solution); setup_system (false).
RefineDistribute ==
  /\ pc = "rg_distribute"
  /\ solution' = Distribute(solution, hanging_node_constraints)
  /\ steps' = Log(steps, "distribute_constraints")
  /\ pc' = "setup_system" /\ ret' = "refine_grid"
  /\ UNCHANGED << initial_step, cycle, iteration, cell, triangulation,
                  dof_handler, hanging_node_constraints, sparsity_pattern,
                  system_matrix, system_rhs, preconditioner, cell_matrix,
                  cell_rhs, assemble_matrix, estimated_error_per_cell,
                  solution_transfer, asm, picard, outputs, solAtIterEnd,
                  elemReads, ecell >>

\* ------------------------------------------------------------------ solve
\* A Picard loop that linearizes about the velocity field from the start.
AssemblerAlwaysNonLinear(it) == "nonlinear"

\* if (iteration == 0) AssembleMatrixLinear ... else AssembleMatrixNonLinear.
AssemblerFor(it) == IF it = 0 THEN "linear" ELSE "nonlinear"

\* SolverControl, SolverCG and a SparseILU that is not yet initialized.
SolveEnter ==
  /\ pc = "solve"
  /\ preconditioner' = EmptyMatrix
  /\ iteration' = 0
  /\ pc' = "sv_loop"
  /\ UNCHANGED << ret, initial_step, cycle, cell, triangulation, dof_handler,
                  hanging_node_constraints, sparsity_pattern, system_matrix,
                  system_rhs, solution, cell_matrix, cell_rhs, assemble_matrix,
                  estimated_error_per_cell, solution_transfer, asm, picard,
                  steps, outputs, solAtIterEnd, elemReads, ecell >>

\* The loop test holds: the assembler of this iteration is constructed and
\* assemble_system is called with it.
PicardBegin ==
  /\ pc = "sv_loop" /\ iteration < PicardIterations
  /\ assemble_matrix' = AssemblerFor(iteration)
  /\ pc' = "as_zero"
  /\ UNCHANGED << ret, initial_step, cycle, iteration, cell, triangulation,
                  dof_handler, hanging_node_constraints, sparsity_pattern,
                  system_matrix, system_rhs, solution, preconditioner,
                  cell_matrix, cell_rhs, estimated_error_per_cell,
                  solution_transfer, asm, picard, steps, outputs,
                  solAtIterEnd, elemReads, ecell >>

\* The loop test fails: solve returns to run, which calls output_results.
SolveReturn ==
  /\ pc = "sv_loop" /\ ~(iteration < PicardIterations)
  /\ pc' = "output"
  /\ UNCHANGED << ret, initial_step, cycle, iteration, cell, triangulation,
                  dof_handler, hanging_node_constraints, sparsity_pattern,
                  system_matrix, system_rhs, solution, preconditioner,
                  cell_matrix, cell_rhs, assemble_matrix,
                  estimated_error_per_cell, solution_transfer, asm, picard,
                  steps, outputs, solAtIterEnd, elemReads, ecell >>

\* -------------------------------------------------------- assemble_system
\* An assembly that adds to what the last one left.
ZeroGlobalSkipped(g) == g

\* system_matrix = 0.0; system_rhs = 0.0: the size stays, every entry goes.
ZeroGlobal(g) == [g EXCEPT !.entries = << >>, !.post = << >>]

\* cell_matrix = 0; cell_rhs = 0.
ZeroLocal(buf) == << >>

\* The element assembler on one cell: it zeroes the buffer it is given and
\* fills it with the stiffness of this cell.
LocalMatrix(kind, cm, a, tria, c) ==
  << [asm |-> a, mesh |-> tria.ver, cell |-> c, kind |-> kind] >>

\* What the element assembler reads of the velocity field on one cell: the
\* linear one reads nu and the thickness only, the nonlinear one calls
\* fe_values.get_function_gradients (solution, ...) on the vector it holds
\* a reference to.
ElementReads(kind, sol) == IF kind = "nonlinear" THEN << sol >> ELSE << >>

\* The load vector of one cell, added to the buffer: the driving stress at
\* the quadrature points and the calving-front term on the faces tagged 1.
LocalRhs(cr, a, tria, c) ==
  Append(cr, [asm |-> a, mesh |-> tria.ver, cell |-> c])

\* system_matrix.add (...), system_rhs(...) += ...: the local entries are
\* added to the global ones.
ScatterAdd(g, local) == [g EXCEPT !.entries = @ \o local]

\* hanging_node_constraints.condense (...).
Condense(g) == [g EXCEPT !.post = Append(@, "condense")]

\* MatrixTools::apply_boundary_values (boundary_values, system_matrix,
\* solution, system_rhs), on the matrix or the right-hand side.
ApplyBoundaryValues(g) == [g EXCEPT !.post = Append(@, "dirichlet")]

AssembleZero ==
  /\ pc = "as_zero"
  /\ asm' = asm + 1
  /\ system_matrix' = ZeroGlobal(system_matrix)
  /\ system_rhs' = ZeroGlobal(system_rhs)
  /\ cell_matrix' = << >>
  /\ cell_rhs' = << >>
  /\ elemReads' = << >>
  /\ cell' = 1
  /\ pc' = "as_cell"
  /\ UNCHANGED << ret, initial_step, cycle, iteration, triangulation,
                  dof_handler, hanging_node_constraints, sparsity_pattern,
                  solution, preconditioner, assemble_matrix,
                  estimated_error_per_cell, solution_transfer, picard, steps,
                  outputs, solAtIterEnd, ecell >>

\* The body of the loop over the active cells, for one cell.
AssembleCell ==
  /\ pc = "as_cell" /\ cell \in ActiveCells(triangulation)
  /\ cell_matrix' = LocalMatrix(assemble_matrix, ZeroLocal(cell_matrix), asm,
                                triangulation, cell)
  /\ elemReads' = elemReads \o ElementReads(assemble_matrix, solution)
  /\ cell_rhs' = LocalRhs(ZeroLocal(cell_rhs), asm, triangulation, cell)
  /\ system_matrix' = ScatterAdd(system_matrix, cell_matrix')
  /\ system_rhs' = ScatterAdd(system_rhs, cell_rhs')
  /\ cell' = cell + 1
  /\ UNCHANGED << pc, ret, initial_step, cycle, iteration, triangulation,
                  dof_handler, hanging_node_constraints, sparsity_pattern,
                  solution, preconditioner, assemble_matrix,
                  estimated_error_per_cell, solution_transfer, asm, picard,
                  steps, outputs, solAtIterEnd, ecell >>

\* After the loop: condense the matrix and the right-hand side.
AssembleCondense ==
  /\ pc = "as_cell" /\ cell \notin ActiveCells(triangulation)
  /\ system_matrix' = Condense(system_matrix)
  /\ system_rhs' = Condense(system_rhs)
  /\ pc' = "as_boundary"
  /\ UNCHANGED << ret, initial_step, cycle, iteration, cell, triangulation,
                  dof_handler, hanging_node_constraints, sparsity_pattern,
                  solution, preconditioner, cell_matrix, cell_rhs,
                  assemble_matrix, estimated_error_per_cell, solution_transfer,
                  asm, picard, steps, outputs, solAtIterEnd, elemReads, ecell >>

\* interpolate_boundary_values and apply_boundary_values, which also sets
\* the boundary entries of the velocity field; assemble_system returns.
AssembleBoundary ==
  /\ pc = "as_boundary"
  /\ system_matrix' = ApplyBoundaryValues(system_matrix)
  /\ system_rhs' = ApplyBoundaryValues(system_rhs)
  /\ solution' = ImposeBoundaryValues(solution, triangulation)
  /\ picard' = Log(picard, << assemble_matrix, iteration >>)
  /\ pc' = "sv_precondition"
  /\ UNCHANGED << ret, initial_step, cycle, iteration, cell, triangulation,
                  dof_handler, hanging_node_constraints, sparsity_pattern,
                  preconditioner, cell_matrix, cell_rhs, assemble_matrix,
                  estimated_error_per_cell, solution_transfer, asm, steps,
                  outputs, solAtIterEnd, elemReads, ecell >>

\* ------------------------------------------------- solve, after assembly
\* A preconditioner that is factored once per solve and then kept.
InitializePreconditionerOnce(pre, mat) == IF pre = EmptyMatrix THEN mat ELSE pre

\* preconditioner.initialize (system_matrix): the factors of this matrix.
InitializePreconditioner(pre, mat) == mat

PreconditionerInitialize ==
  /\ pc = "sv_precondition"
  /\ preconditioner' = InitializePreconditioner(preconditioner, system_matrix)
  /\ pc' = "sv_cg"
  /\ UNCHANGED << ret, initial_step, cycle, iteration, cell, triangulation,
                  dof_handler, hanging_node_constraints, sparsity_pattern,
                  system_matrix, system_rhs, solution, cell_matrix, cell_rhs,
                  assemble_matrix, estimated_error_per_cell, solution_transfer,
                  asm, picard, steps, outputs, solAtIterEnd, elemReads, ecell >>

\* A solve that swallows the exception and goes on.
OnNoConvergenceContinue == "sv_distribute"

\* Where the program is after cg.solve has thrown: no handler is in solve
\* or in run, so the run is over.
OnNoConvergence == "aborted"

\* cg.solve (system_matrix, solution, system_rhs, preconditioner) reaches
\* the tolerance 1.0e-12 within 1000 steps.
CgConverges ==
  /\ pc = "sv_cg"
  /\ solution' = Written(solution, solution.mesh, Filled(solution.size, "solved"))
  /\ picard' = Log(picard, << "solve", iteration >>)
  /\ pc' = "sv_distribute"
  /\ UNCHANGED << ret, initial_step, cycle, iteration, cell, triangulation,
                  dof_handler, hanging_node_constraints, sparsity_pattern,
                  system_matrix, system_rhs, preconditioner, cell_matrix,
                  cell_rhs, assemble_matrix, estimated_error_per_cell,
                  solution_transfer, asm, steps, outputs, solAtIterEnd,
                  elemReads, ecell >>

\* cg.solve does not reach the tolerance within 1000 steps: it throws
\* SolverControl::NoConvergence, which neither solve nor run catches. The
\* velocity field holds the last iterate.
CgFails ==
  /\ pc = "sv_cg"
  /\ solution' = Written(solution, solution.mesh, Filled(solution.size, "unconverged"))
  /\ picard' = Log(picard, << "no_convergence", iteration >>)
  /\ pc' = OnNoConvergence
  /\ UNCHANGED << ret, initial_step, cycle, iteration, cell, triangulation,
                  dof_handler, hanging_node_constraints, sparsity_pattern,
                  system_matrix, system_rhs, preconditioner, cell_matrix,
                  cell_rhs, assemble_matrix, estimated_error_per_cell,
                  solution_transfer, asm, steps, outputs, solAtIterEnd,
                  elemReads, ecell >>

\* hanging_node_constraints.distribute (solution); ++iteration.
SolveDistribute ==
  /\ pc = "sv_distribute"
  /\ solution' = Distribute(solution, hanging_node_constraints)
  /\ solAtIterEnd' = solution'
  /\ picard' = Log(picard, << "distribute", iteration >>)
  /\ iteration' = iteration + 1
  /\ pc' = "sv_loop"
  /\ UNCHANGED << ret, initial_step, cycle, cell, triangulation, dof_handler,
                  hanging_node_constraints, sparsity_pattern, system_matrix,
                  system_rhs, preconditioner, cell_matrix, cell_rhs,
                  assemble_matrix, estimated_error_per_cell, solution_transfer,
                  asm, steps, outputs, elemReads, ecell >>

\* --------------------------------------------------------- output_results
\* A file name that does not depend on the cycle.
FileNameFixed(c) == << "solution-", 48, ".vtk" >>

\* filename = "solution-"; filename += ('0' + cycle); filename += ".vtk":
\* one character is appended, the one with the code '0' + cycle.
FileName(c) == << "solution-", (48 + c) % 256, ".vtk" >>

\* The linear solves that have converged in this cycle.
Solves(l) == Cardinality({ i \in 1..Len(l) : l[i][1] = "solve" })

\* output_results (cycle); ++cycle. The Assert stops a debug build when the
\* cycle has more than one digit.
OutputResults ==
  /\ pc = "output"
  /\ IF cycle < MaxCycleDigit
       THEN /\ outputs' = Append(outputs,
                               [cycle |-> cycle, file |-> FileName(cycle),
                                mesh |-> dof_handler.mesh,
                                tria |-> triangulation.ver,
                                solution |-> solution.stamp,
                                iterEnd |-> solAtIterEnd.stamp,
                                solves |-> Solves(picard)])
            /\ cycle' = cycle + 1
            /\ pc' = "run"
       ELSE /\ pc' = "aborted"
            /\ UNCHANGED << outputs, cycle >>
  /\ UNCHANGED << ret, initial_step, iteration, cell, triangulation,
                  dof_handler, hanging_node_constraints, sparsity_pattern,
                  system_matrix, system_rhs, solution, preconditioner,
                  cell_matrix, cell_rhs, assemble_matrix,
                  estimated_error_per_cell, solution_transfer, asm, picard,
                  steps, solAtIterEnd, elemReads, ecell >>

\* -------------------------------------------------------------------- Spec
Next ==
  \/ RefineGlobal
  \/ RunReturn
  \/ SetupSystemCall
  \/ SetupDistributeDofs
  \/ SetupConstraints
  \/ SetupSolution
  \/ SetupSparsity
  \/ SetupMatrix
  \/ SetupRhs
  \/ Estimate
  \/ Mark
  \/ PrepareTransfer
  \/ ExecuteCoarseningAndRefinement
  \/ RefineDistributeDofs
  \/ Interpolate
  \/ BoundaryOverwrite
  \/ RefineConstraints
  \/ RefineDistribute
  \/ SolveEnter
  \/ PicardBegin
  \/ SolveReturn
  \/ AssembleZero
  \/ AssembleCell
  \/ AssembleCondense
  \/ AssembleBoundary
  \/ PreconditionerInitialize
  \/ CgConverges
  \/ CgFails
  \/ SolveDistribute
  \/ OutputResults

Spec == Init /\ [][Next]_vars

\* ------------------------------------------- one cell, in double precision
\* A double, as far as the claims need it: "zero", a finite "pos" or "neg",
\* "fin" (finite, of unknown sign, possibly zero), "pinf", "ninf", "nan", and
\* "top" (any double). Overflow of a product or a sum of finite values is
\* not modelled.
Doubles == {"zero", "pos", "neg", "fin", "pinf", "ninf", "nan", "top"}

Infinite(a) == a \in {"pinf", "ninf"}

\* -a
NegF(a) ==
  CASE a = "pos" -> "neg" [] a = "neg" -> "pos"
    [] a = "pinf" -> "ninf" [] a = "ninf" -> "pinf"
    [] OTHER -> a

Positive(a) == a \in {"pos", "pinf"}

\* a * b: 0 * inf is NaN, NaN stays NaN.
MulF(a, b) ==
  IF a = "nan" \/ b = "nan" THEN "nan"
  ELSE IF a = "zero" \/ b = "zero"
    THEN (IF Infinite(a) \/ Infinite(b) THEN "nan"
          ELSE IF a = "top" \/ b = "top" THEN "top" ELSE "zero")
  ELSE IF a = "top" \/ b = "top" THEN "top"
  ELSE IF a = "fin" \/ b = "fin"
    THEN (IF Infinite(a) \/ Infinite(b) THEN "top" ELSE "fin")
  ELSE IF Infinite(a) \/ Infinite(b)
    THEN (IF Positive(a) = Positive(b) THEN "pinf" ELSE "ninf")
  ELSE (IF Positive(a) = Positive(b) THEN "pos" ELSE "neg")

\* a + b: inf + (-inf) is NaN, NaN stays NaN.
AddF(a, b) ==
  IF a = "nan" \/ b = "nan" THEN "nan"
  ELSE IF a = "top" \/ b = "top" THEN "top"
  ELSE IF Infinite(a) /\ Infinite(b) THEN (IF a = b THEN a ELSE "nan")
  ELSE IF Infinite(a) THEN a
  ELSE IF Infinite(b) THEN b
  ELSE IF a = "zero" THEN b
  ELSE IF b = "zero" THEN a
  ELSE IF a = b THEN a
  ELSE "fin"

\* a - b
SubF(a, b) == AddF(a, NegF(b))

\* pow (x, -1.0/3) of a double x given exactly: +inf at 0, NaN below 0.
PowMinusThird(x) ==
  IF x = 0 THEN "pinf" ELSE IF x > 0 THEN "pos" ELSE "nan"

\* quadrature_formula (2): 2 x 2 Gauss points; fe (FE_Q<2>(1), 2): 4
\* vertices with 2 components; GeometryInfo<2>::faces_per_cell;
\* face_quadrature_formula (2): 2 Gauss points.
n_q_points == 4
dofs_per_cell == 8
faces_per_cell == 4
n_face_q_points == 2

\* Largest absolute value of half an entry of a velocity gradient.
MaxGrad == 1

\* The velocity gradients fe_values.get_function_gradients can return at a
\* point: even entries, so that the strain rate is in whole numbers.
Gradients ==
  [xx : {2 * k : k \in -MaxGrad..MaxGrad}, xy : {2 * k : k \in -MaxGrad..MaxGrad},
   yx : {2 * k : k \in -MaxGrad..MaxGrad}, yy : {2 * k : k \in -MaxGrad..MaxGrad}]

\* EllipticSystems::get_strain: the symmetric part of the gradient.
get_strain(g) == [xx |-> g.xx, xy |-> (g.xy + g.yx) \div 2, yy |-> g.yy]

\* first_invariant of a SymmetricTensor<2, 2>: the trace.
first_invariant(eps) == eps.xx + eps.yy

\* second_invariant of a SymmetricTensor<2, 2>.
second_invariant(eps) == eps.xx * eps.yy - eps.xy * eps.xy

\* B = 0.5 * pow (A0_cold * exp (-Q_cold / (idealgas * Temp)), -1.0/3) and
\* nu_guess = B * pow (strain_rate * strain_rate, -1.0/3), strain_rate = 0.2.
B == "pos"
nu_guess == MulF(B, "pos")

\* The linear assembler at one point: nu_q = nu_values[q] * thickness_values[q].
LinearViscosity(h) == MulF(nu_guess, h)

\* The nonlinear assembler at one point: eps, trace_eps, eps2 and
\* nu = B * pow (eps2, -1.0/3) * thickness_values[q].
NonLinearViscosity(g, h) ==
  LET eps == get_strain(g)
      trace_eps == first_invariant(eps)
      eps2 == trace_eps * trace_eps - second_invariant(eps)
  IN  MulF(MulF(B, PowMinusThird(eps2)), h)

\* EllipticSystems::stress_strain_tensor<2> (lambda, mu): its two coefficients.
stress_strain_tensor(lambda, mu) == [lambda |-> lambda, mu |-> mu]

\* EllipticSystems::fill_cell_matrix<2>: entry (i, j) += the contraction of
\* the two shape gradients with the tensor, times the weight: a finite
\* multiple of lambda plus a finite multiple of mu.
fill_cell_matrix(cm, C) ==
  [i \in 1..dofs_per_cell |->
     [j \in 1..dofs_per_cell |->
        AddF(cm[i][j], AddF(MulF("fin", C.lambda), MulF("fin", C.mu)))]]

\* The component of the velocity a shape function of FESystem (FE_Q(1), 2)
\* belongs to, and its vertex.
Component(i) == IF i % 2 = 1 THEN "x" ELSE "y"
Vertex(i) == (i - 1) \div 2

\* The vertices of a face of the reference square.
FaceVertices(f) ==
  CASE f = 1 -> {0, 2} [] f = 2 -> {1, 3} [] f = 3 -> {0, 1} [] OTHER -> {2, 3}

\* EllipticSystems::fill_cell_rhs_field<2>: entry i += shape value * the
\* component of the field * weight; a Q1 shape value is positive at a
\* Gauss point inside the cell.
fill_cell_rhs_field(cr, field) ==
  [i \in 1..dofs_per_cell |-> AddF(cr[i], MulF("pos", field[Component(i)]))]

\* EllipticSystems::fill_cell_rhs_neumann<2>: the same on a face, where the
\* shape functions of the vertices off the face vanish.
fill_cell_rhs_neumann(cr, field, f) ==
  [i \in 1..dofs_per_cell |->
     AddF(cr[i], MulF(IF Vertex(i) \in FaceVertices(f) THEN "pos" ELSE "zero",
                      field[Component(i)]))]

\* driving_stress = -rho_ice * gravity * thickness_values[q] *
\* surface_gradient_values[q].
DrivingStress(h, grad_s) ==
  [c \in {"x", "y"} |-> MulF(MulF(MulF("neg", "pos"), h), grad_s[c])]

\* h = thickness.value (x); b = surface.value (x) - thickness.value (x);
\* neumann_value = 0.5 * gravity * (rho_ice * h * h - rho_water * b * b) *
\* normal_vector.
NeumannValue(h, s, normal) ==
  LET b == SubF(s, h)
      p == MulF(MulF("pos", "pos"),
                SubF(MulF(MulF("pos", h), h), MulF(MulF("pos", b), b)))
  IN  [c \in {"x", "y"} |-> MulF(p, normal[c])]

Uniform(v) == [i \in 1..dofs_per_cell |-> [j \in 1..dofs_per_cell |-> v]]

\* The values a thickness and a surface elevation can have at a point, and
\* the gradients of the surface: flat in a direction, or any finite slope.
Thicknesses == {"zero", "pos"}
Elevations == {"neg", "zero", "pos"}
SurfaceGradients == [{"x", "y"} -> {"zero", "fin"}]

\* fe_face_values.normal_vector: the cells are rectangles along the axes,
\* as the refinements of a rectangular domain are, so the outward normal
\* of a face is the one of the reference square.
FaceNormal(f) ==
  CASE f = 1 -> [x |-> "neg", y |-> "zero"]
    [] f = 2 -> [x |-> "pos", y |-> "zero"]
    [] f = 3 -> [x |-> "zero", y |-> "neg"]
    [] OTHER -> [x |-> "zero", y |-> "pos"]

\* A cell before assemble_system's loop body runs on it: either assembler,
\* any thickness at its quadrature points, and in the local buffers what the
\* cell before it left there.
InitElem ==
  /\ InitRun
  /\ \E k \in {"linear", "nonlinear"}, th \in [1..n_q_points -> Thicknesses],
        left \in {"zero", "fin"} :
        ecell = [phase |-> "zero", kind |-> k, q |-> 0, face |-> 0, fq |-> 0,
                 thickness_values |-> th,
                 zero_thickness |-> \A q \in 1..n_q_points : th[q] = "zero",
                 cell_matrix |-> Uniform(left),
                 cell_rhs |-> [i \in 1..dofs_per_cell |-> left]]

\* cell_matrix = 0; cell_rhs = 0; and the assembler's own cell_matrix = 0.0.
ElemZero ==
  /\ ecell.phase = "zero"
  /\ ecell' = [ecell EXCEPT !.phase = "matrix", !.q = 1,
                            !.cell_matrix = Uniform("zero"),
                            !.cell_rhs = [i \in 1..dofs_per_cell |-> "zero"]]
  /\ UNCHANGED runvars

\* The assembler's loop over the quadrature points, one point.
ElemMatrixPoint ==
  /\ ecell.phase = "matrix" /\ ecell.q <= n_q_points
  /\ \E g \in Gradients :
       LET h == ecell.thickness_values[ecell.q]
           nu == IF ecell.kind = "linear" THEN LinearViscosity(h)
                 ELSE NonLinearViscosity(g, h)
           C == stress_strain_tensor(MulF("pos", nu), nu)
       IN  ecell' = [ecell EXCEPT !.cell_matrix = fill_cell_matrix(@, C),
                                  !.q = @ + 1]
  /\ UNCHANGED runvars

\* The assembler returns; the loop for the driving stress begins.
ElemMatrixDone ==
  /\ ecell.phase = "matrix" /\ ecell.q > n_q_points
  /\ ecell' = [ecell EXCEPT !.phase = "rhs", !.q = 1]
  /\ UNCHANGED runvars

\* The loop for the driving stress, one point.
ElemRhsPoint ==
  /\ ecell.phase = "rhs" /\ ecell.q <= n_q_points
  /\ \E grad_s \in SurfaceGradients :
       ecell' = [ecell EXCEPT
                   !.cell_rhs = fill_cell_rhs_field(@,
                       DrivingStress(ecell.thickness_values[ecell.q], grad_s)),
                   !.q = @ + 1]
  /\ UNCHANGED runvars

ElemRhsDone ==
  /\ ecell.phase = "rhs" /\ ecell.q > n_q_points
  /\ ecell' = [ecell EXCEPT !.phase = "faces", !.face = 1, !.fq = 0]
  /\ UNCHANGED runvars

\* The loop over the faces, one face: it is skipped unless it is at the
\* boundary with indicator 1.
ElemFace ==
  /\ ecell.phase = "faces" /\ ecell.face <= faces_per_cell /\ ecell.fq = 0
  /\ \E at_boundary \in BOOLEAN, boundary_indicator \in 0..CalvingId :
       IF at_boundary /\ boundary_indicator = CalvingId
         THEN ecell' = [ecell EXCEPT !.fq = 1]
         ELSE ecell' = [ecell EXCEPT !.face = @ + 1]
  /\ UNCHANGED runvars

\* The loop over the quadrature points of a calving-front face, one point.
ElemFacePoint ==
  /\ ecell.phase = "faces" /\ ecell.fq >= 1
  /\ \E h \in Thicknesses, s \in Elevations :
       ecell' = [ecell EXCEPT
                   !.cell_rhs = fill_cell_rhs_neumann(@,
                       NeumannValue(h, s, FaceNormal(ecell.face)),
                       ecell.face),
                   !.zero_thickness = @ /\ h = "zero",
                   !.fq = IF @ = n_face_q_points THEN 0 ELSE @ + 1,
                   !.face = IF ecell.fq = n_face_q_points THEN @ + 1 ELSE @]
  /\ UNCHANGED runvars

\* The local matrix and load vector are complete.
ElemDone ==
  /\ ecell.phase = "faces" /\ ecell.face > faces_per_cell
  /\ ecell' = [ecell EXCEPT !.phase = "done"]
  /\ UNCHANGED runvars

NextElem ==
  \/ ElemZero
  \/ ElemMatrixPoint
  \/ ElemMatrixDone
  \/ ElemRhsPoint
  \/ ElemRhsDone
  \/ ElemFace
  \/ ElemFacePoint
  \/ ElemDone

SpecElem == InitElem /\ [][NextElem]_vars

\* ------------------------------------------------------------------ claims
RECURSIVE ExpectedPicard(_)
\* The steps of the first k Picard iterations as the claim C1 states them.
ExpectedPicard(k) ==
  IF k = 0 THEN << >>
  ELSE ExpectedPicard(k - 1) \o
       << << (IF k - 1 = 0 THEN "linear" ELSE "nonlinear"), k - 1 >>,
          << "solve", k - 1 >>,
          << "distribute", k - 1 >> >>

IsPrefix(a, b) == Len(a) <= Len(b) /\ SubSeq(b, 1, Len(a)) = a

\* From the return of assemble_system to the end of the Picard iteration.
Assembled == { "sv_precondition", "sv_cg", "sv_distribute" }

\* C1: a solve that does not fail does exactly five Picard iterations 0..4,
\* each one assemble, solve, distribute in this order, iteration 0 with
\* the linear assembler and iterations 1..4 with the nonlinear one, in
\* every cycle: while no solve has failed the steps done are a prefix of
\* that sequence, and when solve returns they are the whole of it.
C1_PicardOrder ==
  /\ cycle \in 0..Cycles
  /\ pc # "aborted" => IsPrefix(picard, ExpectedPicard(5))
  /\ pc = "output" => picard = ExpectedPicard(5)

C1_Witness == pc = "output" /\ cycle = 2 /\ Len(picard) = 15

\* C2: in iteration 0 the element assembler reads no velocity field. In an
\* iteration k >= 1 every read of the element assembler sees the field as
\* iteration k-1 left it after its solve and its constraint distribution,
\* one read per cell assembled, and the field is not written from the end
\* of iteration k-1 to the last of these reads.
C2_VelocityReads ==
  /\ (pc \in {"as_cell", "as_boundary"} \cup Assembled /\ iteration = 0)
        => elemReads = << >>
  /\ (pc \in {"as_cell", "as_boundary"} \cup Assembled /\ iteration >= 1)
        => /\ Len(elemReads) = cell - 1
           /\ \A i \in 1..Len(elemReads) : elemReads[i] = solAtIterEnd
  /\ (pc \in {"as_zero", "as_cell"} /\ iteration >= 1)
        => solution = solAtIterEnd

C2_Witness ==
  /\ pc = "as_boundary" /\ iteration = 1 /\ cycle = 1
  /\ Len(elemReads) = 2
  /\ solution.stamp > 1

\* C3: when solve begins, in every cycle, the numbering of the degrees of
\* freedom, the constraints, the sparsity pattern, the matrix, the
\* right-hand side and the velocity vector were all built for the current
\* mesh, and both dimensions of the matrix and the sizes of the two
\* vectors are the number of degrees of freedom of that mesh.
C3_ConsistentAtSolve ==
  pc = "solve" =>
    /\ dof_handler = [mesh |-> triangulation.ver, n_dofs |-> triangulation.n_dofs]
    /\ hanging_node_constraints.mesh = triangulation.ver
    /\ hanging_node_constraints.closed
    /\ hanging_node_constraints.lines = HangingDofs(triangulation)
    /\ sparsity_pattern.mesh = triangulation.ver
    /\ sparsity_pattern.rows = triangulation.n_dofs
    /\ sparsity_pattern.cols = triangulation.n_dofs
    /\ sparsity_pattern.compressed
    /\ system_matrix.mesh = triangulation.ver
    /\ system_matrix.m = triangulation.n_dofs
    /\ system_matrix.n = triangulation.n_dofs
    /\ system_rhs.mesh = triangulation.ver
    /\ system_rhs.size = triangulation.n_dofs
    /\ solution.mesh = triangulation.ver
    /\ solution.size = triangulation.n_dofs

C3_Witness ==
  /\ pc = "solve" /\ cycle = 2
  /\ triangulation.nh > 0 /\ triangulation.n_dofs = 3

\* The statements at which the global system is not in the middle of being
\* rebuilt for a new mesh: from the call of solve to the next mesh change.
SystemInUse ==
  \/ pc \in {"solve", "sv_loop", "as_zero", "as_cell", "as_boundary",
             "output", "aborted", "done"} \cup Assembled
  \/ pc = "run" /\ cycle > 0

\* C4 as stated: in every state of a run the dimensions of the matrix and
\* of the right-hand side are the number of degrees of freedom of the
\* current mesh.
C4_Original ==
  /\ system_matrix.m = dof_handler.n_dofs
  /\ system_matrix.n = dof_handler.n_dofs
  /\ system_rhs.size = dof_handler.n_dofs

\* C4, amended: from the call of solve to the next change of the mesh the
\* dimensions of the matrix and of the right-hand side are the number of
\* degrees of freedom of the current mesh, and the matrix, the right-hand
\* side and the sparsity pattern are the ones built after the last change
\* of the mesh, not older ones.
C4_DimensionInUse ==
  SystemInUse =>
    /\ dof_handler.mesh = triangulation.ver
    /\ dof_handler.n_dofs = triangulation.n_dofs
    /\ system_matrix.m = dof_handler.n_dofs
    /\ system_matrix.n = dof_handler.n_dofs
    /\ system_rhs.size = dof_handler.n_dofs
    /\ system_matrix.mesh = triangulation.ver
    /\ system_rhs.mesh = triangulation.ver
    /\ sparsity_pattern.mesh = triangulation.ver

C4_Witness ==
  /\ pc = "as_cell" /\ cycle = 2 /\ iteration = 4
  /\ system_matrix.m = 2

\* C5: a linear solve that does not converge ends the run at once: it is
\* the last step of the run, nothing is enabled after it (no retry, no
\* distribution, no later iteration, no output of this cycle, no later
\* cycle), and every output written was written after five converged
\* solves of its cycle.
C5_FailureHalts ==
  /\ \A i \in 1..Len(picard) :
        picard[i][1] = "no_convergence" =>
          /\ i = Len(picard)
          /\ pc = "aborted"
          /\ picard[i][2] = iteration
          /\ Len(outputs) = cycle
  /\ pc = "aborted" =>
        /\ ~ ENABLED Next
        /\ Len(picard) > 0
        /\ picard[Len(picard)][1] = "no_convergence"
  /\ \A i \in 1..Len(outputs) : outputs[i].solves = 5 /\ outputs[i].cycle < cycle

C5_Witness ==
  /\ pc = "aborted" /\ cycle = 1 /\ iteration = 2
  /\ Len(outputs) = 1

\* The entries the assembly number a of the mesh leaves for the cells 1..n.
CellContributions(a, tria, n, kind) ==
  [c \in 1..n |-> [asm |-> a, mesh |-> tria.ver, cell |-> c, kind |-> kind]]

CellLoads(a, tria, n) ==
  [c \in 1..n |-> [asm |-> a, mesh |-> tria.ver, cell |-> c]]

\* C6: when assemble_system has returned, the matrix and the right-hand
\* side hold the contributions of this assembly only, one per active cell
\* of the current mesh, each cell once, then the condensation and then
\* the Dirichlet values, in this order; during the cell loop they hold one
\* contribution of this assembly per cell done and neither the
\* condensation nor the Dirichlet values.
C6_AssemblyFresh ==
  /\ pc = "as_cell" =>
        /\ system_matrix.entries =
             CellContributions(asm, triangulation, cell - 1, assemble_matrix)
        /\ system_rhs.entries = CellLoads(asm, triangulation, cell - 1)
        /\ system_matrix.post = << >> /\ system_rhs.post = << >>
  /\ pc \in Assembled =>
        /\ system_matrix.entries =
             CellContributions(asm, triangulation, triangulation.n_cells,
                               assemble_matrix)
        /\ system_rhs.entries =
             CellLoads(asm, triangulation, triangulation.n_cells)
        /\ system_matrix.post = << "condense", "dirichlet" >>
        /\ system_rhs.post = << "condense", "dirichlet" >>

C6_Witness ==
  /\ pc = "sv_precondition" /\ asm > 10 /\ iteration = 3
  /\ Len(system_matrix.entries) = 2

\* C7: when the linear solve starts, the preconditioner is the one
\* initialized from the matrix the assembly of this same iteration has
\* returned, condensed and with the Dirichlet values applied.
C7_PreconditionerFresh ==
  pc = "sv_cg" =>
    /\ preconditioner = system_matrix
    /\ preconditioner.mesh = triangulation.ver
    /\ preconditioner.post = << "condense", "dirichlet" >>
    /\ Len(preconditioner.entries) = triangulation.n_cells
    /\ \A i \in 1..Len(preconditioner.entries) :
          preconditioner.entries[i].asm = asm

C7_Witness == pc = "sv_cg" /\ iteration = 3 /\ cycle = 1 /\ asm = 9

\* C8: one output per cycle, in the order 0, 1, 2, each one written after
\* the fifth Picard iteration of its cycle on the mesh and with the
\* velocity field of that cycle; every cycle number is below 10, the
\* character after "solution-" is a digit and no two file names agree; a
\* run that ends without failure has written three files.
C8_Outputs ==
  /\ Len(outputs) <= Cycles
  /\ \A i \in 1..Len(outputs) :
        /\ outputs[i].cycle = i - 1
        /\ outputs[i].cycle < 10
        /\ outputs[i].solves = 5
        /\ outputs[i].solution = outputs[i].iterEnd
        /\ outputs[i].tria = i + 1
        /\ outputs[i].mesh = i + 1
        /\ outputs[i].file[2] \in 48..57
        /\ \A j \in 1..Len(outputs) : outputs[j].file = outputs[i].file => j = i
  /\ pc = "done" => Len(outputs) = 3
  /\ pc \notin {"output", "aborted"} => Len(outputs) = cycle

C8_Witness == pc = "done" /\ Len(outputs) = 3

\* The steps of refine_grid and of the two setup_system (false) after it.
RefineSteps ==
  << "estimate_error", "mark_cells", "prepare_transfer", "execute_refinement",
     "distribute_dofs", "interpolate_solution", "impose_boundary_values",
     "make_constraints", "distribute_constraints",
     "sparsity_pattern", "reinit_matrix", "reinit_rhs",
     "sparsity_pattern", "reinit_matrix", "reinit_rhs" >>

\* C10: in a cycle >= 1 the steps before solve are, in this order:
\* estimate (on the old mesh and the old velocity field), mark, execute,
\* renumber, interpolate, overwrite the boundary entries, rebuild and
\* distribute the constraints, reinitialize the system. When solve starts
\* the velocity field is the transferred one: every entry on the boundary
\* with indicator 0 is the prescribed value, every constrained entry is
\* the distributed one, every other entry the interpolated one.
C10_RefineOrder ==
  /\ (cycle >= 1 /\ pc \notin {"run", "done"}) => IsPrefix(steps, RefineSteps)
  /\ (cycle >= 1 /\ pc = "rg_mark") =>
        /\ estimated_error_per_cell.mesh = triangulation.ver
        /\ estimated_error_per_cell.size = triangulation.n_cells
        /\ estimated_error_per_cell.stamp = outputs[cycle].solution
  /\ (cycle >= 1 /\ pc = "rg_interpolate") =>
        /\ solution_transfer.stored = outputs[cycle].solution
        /\ solution_transfer.mesh = outputs[cycle].mesh
  /\ (cycle >= 1 /\ pc = "solve") =>
        /\ steps = RefineSteps
        /\ \A d \in 1..solution.size :
              solution.val[d] =
                IF d \in BoundaryDofs(triangulation) THEN "bvel"
                ELSE IF d \in HangingDofs(triangulation) THEN "constrained"
                ELSE "transferred"

C10_Witness ==
  /\ pc = "solve" /\ cycle = 1
  /\ triangulation.nb = 1 /\ triangulation.nh = 1 /\ triangulation.n_dofs = 3

\* C9: on a cell where the thickness is zero at every point it is sampled
\* at, the local stiffness matrix of either assembler is exactly zero, for
\* every velocity field, and the local load vector is exactly zero, for
\* every surface elevation.
C9_ZeroThickness ==
  (ecell.phase = "done" /\ ecell.zero_thickness) =>
    /\ \A i, j \in 1..dofs_per_cell : ecell.cell_matrix[i][j] = "zero"
    /\ \A i \in 1..dofs_per_cell : ecell.cell_rhs[i] = "zero"

====
